---- MODULE Spec2Model ----
(***************************************************************************)
(* Sprint Planner: the schedule builder (build_schedule) and the race      *)
(* calendar export (calendar_to_excel / taper_protocol) of                 *)
(* app_streamlit_all_in_one.py as a state machine.                         *)
(*                                                                         *)
(* Text.  TLA+ strings are ASCII, so the three non-ASCII characters of the *)
(* source are written "-" (en dash), "--" (em dash) and ">=" (the          *)
(* greater-or-equal sign).  Strings are concatenated with \o as the        *)
(* f-strings of the source concatenate them.                               *)
(*                                                                         *)
(* Dates.  A date string "%Y-%m-%d" is the record [y, m, d] of its three   *)
(* fields; datetime.strptime turns it into a proleptic Gregorian ordinal   *)
(* (day 1 is 0001-01-01, a Monday) or raises ValueError, and strftime      *)
(* turns an ordinal back into the record.                                  *)
(*                                                                         *)
(* Floats.  A Python float is an IEEE-754 double: the record [man, exp]    *)
(* with value man * 2^exp and 2^52 <= man < 2^53.  Mantissas do not fit    *)
(* TLC's integers and are kept as little-endian sequences of              *)
(* base-10000 limbs.                                                       *)
(***************************************************************************)
EXTENDS Integers, Sequences, FiniteSets, TLC

VARIABLES
    op,          \* which entry point the caller invoked: "build" or "calendar"
    cfg,         \* build_schedule: the configuration dictionary
    pc,          \* build_schedule: "call", "loop", "done", "error"; "idle" when not invoked
    start,       \* build_schedule locals (ordinals)
    end,
    weeks,       \* the DatetimeIndex of weekly anchors, as a sequence of ordinals
    peak1,
    peak2,
    phases_cfg,  \* sequence of nine [name, s, e]
    commute_factor,
    age_factor,
    i,           \* enumerate index of the next anchor
    rows,        \* the rows appended so far
    iter_log,    \* per appended row, the iteration's locals: i, rot_idx, base_text, prefix
    df_cal,      \* calendar_to_excel: the calendar rows
    cal_pc,      \* calendar_to_excel: "call", "loop", "done"; "idle" when not invoked
    cal_i,       \* index of the next calendar row
    cal_rows     \* the expanded rows appended so far

buildVars == <<cfg, pc, start, end, weeks, peak1, peak2, phases_cfg,
               commute_factor, age_factor, i, rows, iter_log>>
calVars == <<df_cal, cal_pc, cal_i, cal_rows>>
vars == <<op, buildVars, calVars>>

\* dict.get(key, default)
Get(d, k, default) == IF k \in DOMAIN d THEN d[k] ELSE default

--------------------------------------------------------------------------
(* Dates: datetime.strptime, strftime, weekday, pandas.date_range          *)

IsLeap(y) == (y % 4 = 0) /\ ((y % 100 # 0) \/ (y % 400 = 0))

DaysInMonth(y, m) ==
    CASE m \in {1, 3, 5, 7, 8, 10, 12} -> 31
      [] m \in {4, 6, 9, 11} -> 30
      [] OTHER -> IF IsLeap(y) THEN 29 ELSE 28

\* strptime accepts the fields of an existing calendar day only
ValidDate(dt) ==
    /\ dt.y \in 1..9999
    /\ dt.m \in 1..12
    /\ dt.d >= 1
    /\ dt.d <= DaysInMonth(dt.y, dt.m)

RECURSIVE DaysBeforeMonth(_, _)
DaysBeforeMonth(y, m) ==
    IF m = 1 THEN 0 ELSE DaysBeforeMonth(y, m - 1) + DaysInMonth(y, m - 1)

DaysBeforeYear(y) ==
    LET p == y - 1 IN p * 365 + (p \div 4) - (p \div 100) + (p \div 400)

\* strptime of a well-formed string: the day's ordinal
ToOrdinal(dt) == DaysBeforeYear(dt.y) + DaysBeforeMonth(dt.y, dt.m) + dt.d

\* strftime("%Y-%m-%d"): the fields of the ordinal's day
FromOrdinal(n) ==
    LET n0 == n - 1
        n400 == n0 \div 146097
        r400 == n0 % 146097
        n100 == r400 \div 36524
        r100 == r400 % 36524
        n4 == r100 \div 1461
        r4 == r100 % 1461
        n1 == r4 \div 365
        r1 == r4 % 365
        year == n400 * 400 + 1 + n100 * 100 + n4 * 4 + n1
    IN IF n1 = 4 \/ n100 = 4
       THEN [y |-> year - 1, m |-> 12, d |-> 31]
       ELSE LET month == CHOOSE m \in 1..12 :
                    /\ DaysBeforeMonth(year, m) <= r1
                    /\ r1 < DaysBeforeMonth(year, m) + DaysInMonth(year, m)
            IN [y |-> year, m |-> month, d |-> r1 - DaysBeforeMonth(year, month) + 1]

\* datetime.weekday(): Monday is 0
Weekday(n) == (n + 6) % 7

RECURSIVE WeeklyFrom(_, _)
WeeklyFrom(first, last) ==
    IF first > last THEN <<>> ELSE <<first>> \o WeeklyFrom(first + 7, last)

\* mutant: anchors start at the Monday of the week holding s, not the first one on or after s
DateRangeFromWeekStart(s, e) == WeeklyFrom(s - Weekday(s), e)

\* mutant: the two ends are put in order before the range is walked
DateRangeEitherOrder(s, e) ==
    LET lo == IF s <= e THEN s ELSE e
        hi == IF s <= e THEN e ELSE s
    IN WeeklyFrom(lo + ((7 - Weekday(lo)) % 7), hi)

\* pd.date_range(start, end, freq="W-MON"): the Mondays of [s, e], ascending
DateRange(s, e) == WeeklyFrom(s + ((7 - Weekday(s)) % 7), e)

--------------------------------------------------------------------------
(* Static tables                                                           *)

Days == <<"Mon", "Tue", "Wed", "Thu", "Fri", "Sat", "Sun">>
DaySet == {Days[k] : k \in 1..7}

DEFAULT_PHASES == <<
    <<"Phase 1 - General Prep", "Build foundation: sprint drills, general strength">>,
    <<"Phase 2 - Specific Prep", "Acceleration, max velocity, introduce 150m runs">>,
    <<"Phase 3 - Pre-Competition (Indoor)", "Sharpening, block starts, race sim (60/200)">>,
    <<"Phase 4 - Taper & Peak 1", "Taper into indoor peak">>,
    <<"Phase 5 - Transition/Recovery", "Active recovery, variation">>,
    <<"Phase 6 - Outdoor Build", "100/200m base, special endurance, bends">>,
    <<"Phase 7 - Pre-Competition Outdoor", "Race-specific prep (100/200)">>,
    <<"Phase 8 - Taper & Peak 2", "Taper into outdoor peak">>,
    <<"Phase 9 - Post-season Reset", "Active recovery & reset">> >>

\* ROTATIONS[day][rot_idx + 1]
ROTATIONS == [day \in DaySet |->
    CASE day = "Mon" -> <<
            "Warm-up + drills; Starts/accelerations; Core",
            "Warm-up + drills; Accel 30-40m; Relaxed 60m; Core",
            "Warm-up + drills; Accel 30m x8; Med ball; Core",
            "Warm-up + drills; Blocks; Accel; Short 50-60m; Core">>
      [] day = "Tue" -> <<
            "Drills; Flying 20-30m; Light plyo",
            "Drills; Relaxed strides; Bounding; Core",
            "Drills; Accel 30m; Hurdle hops; Med ball",
            "Drills; Flying 20-30m; Plyo circuit">>
      [] day = "Wed" -> <<
            "Bodyweight circuit (legs + push + core)",
            "Bands (rows, pull-aparts) + glutes + core",
            "Single-leg / balance strength + core",
            "Split squats + pull-aparts + stability core">>
      [] day = "Thu" -> <<
            "Key session: special endurance / race sim",
            "Key session: bend runs / race rhythm",
            "Key session: 150-200m @90-95% + starts",
            "Key session: race pace mix (100/200)">>
      [] day = "Fri" -> <<
            "Flying 20-30m; Blocks; Explosive circuit",
            "Accel 20-40m; Jump squats; Core",
            "Accel 20-30m; Bounding; Med ball",
            "Relaxed 40-60m; Blocks; Explosive lunges; Core">>
      [] day = "Sat" -> <<
            "Optional sprint (if fresh) or active recovery",
            "Optional: relaxed 150-200m + stretch",
            "Optional: accel + light plyo",
            "Optional: short race sim; or rest">>
      [] OTHER -> <<
            "Rest / Competition",
            "Rest / Mobility",
            "Rest / Easy bike",
            "Rest">>]

\* The characters of the strings that the substring tests of build_schedule read
Chars(s) ==
    CASE s = "Phase 1 - General Prep" ->
            <<"P","h","a","s","e"," ","1"," ","-"," ","G","e","n","e","r","a","l"," ","P","r","e","p">>
      [] s = "Phase 2 - Specific Prep" ->
            <<"P","h","a","s","e"," ","2"," ","-"," ","S","p","e","c","i","f","i","c"," ","P","r","e","p">>
      [] s = "Phase 3 - Pre-Competition (Indoor)" ->
            <<"P","h","a","s","e"," ","3"," ","-"," ","P","r","e","-","C","o","m","p","e","t","i","t","i","o","n"," ","(","I","n","d","o","o","r",")">>
      [] s = "Phase 4 - Taper & Peak 1" ->
            <<"P","h","a","s","e"," ","4"," ","-"," ","T","a","p","e","r"," ","&"," ","P","e","a","k"," ","1">>
      [] s = "Phase 5 - Transition/Recovery" ->
            <<"P","h","a","s","e"," ","5"," ","-"," ","T","r","a","n","s","i","t","i","o","n","/","R","e","c","o","v","e","r","y">>
      [] s = "Phase 6 - Outdoor Build" ->
            <<"P","h","a","s","e"," ","6"," ","-"," ","O","u","t","d","o","o","r"," ","B","u","i","l","d">>
      [] s = "Phase 7 - Pre-Competition Outdoor" ->
            <<"P","h","a","s","e"," ","7"," ","-"," ","P","r","e","-","C","o","m","p","e","t","i","t","i","o","n"," ","O","u","t","d","o","o","r">>
      [] s = "Phase 8 - Taper & Peak 2" ->
            <<"P","h","a","s","e"," ","8"," ","-"," ","T","a","p","e","r"," ","&"," ","P","e","a","k"," ","2">>
      [] s = "Phase 9 - Post-season Reset" ->
            <<"P","h","a","s","e"," ","9"," ","-"," ","P","o","s","t","-","s","e","a","s","o","n"," ","R","e","s","e","t">>
      [] s = "Taper" -> <<"T","a","p","e","r">>
      [] s = "Transition" -> <<"T","r","a","n","s","i","t","i","o","n">>
      [] s = "Post-season" -> <<"P","o","s","t","-","s","e","a","s","o","n">>
      [] OTHER -> <<>>

\* Python's  needle in hay  on strings
Contains(needle, hay) ==
    LET n == Chars(needle)
        h == Chars(hay)
    IN \E k \in 0..(Len(h) - Len(n)) : SubSeq(h, k + 1, k + Len(n)) = n

--------------------------------------------------------------------------
(* Natural numbers beyond TLC's integers: little-endian sequences  *)
(* of base-10000 limbs without leading zero limbs; <<>> is zero.           *)

RECURSIVE BigNorm(_)
BigNorm(a) ==
    IF a = <<>> THEN <<>>
    ELSE IF a[Len(a)] = 0 THEN BigNorm(SubSeq(a, 1, Len(a) - 1)) ELSE a

RECURSIVE BigOf(_)
BigOf(n) == IF n = 0 THEN <<>> ELSE <<n % 10000>> \o BigOf(n \div 10000)

RECURSIVE BigMulSmallC(_, _, _)
BigMulSmallC(a, k, carry) ==
    IF a = <<>> THEN BigOf(carry)
    ELSE LET t == a[1] * k + carry
         IN <<t % 10000>> \o BigMulSmallC(Tail(a), k, t \div 10000)

\* a * k for 0 <= k <= 100000
BigMulSmall(a, k) == BigNorm(BigMulSmallC(a, k, 0))

RECURSIVE BigAddC(_, _, _)
BigAddC(a, b, carry) ==
    IF a = <<>> /\ b = <<>> THEN BigOf(carry)
    ELSE LET x == IF a = <<>> THEN 0 ELSE a[1]
             y == IF b = <<>> THEN 0 ELSE b[1]
             t == x + y + carry
         IN <<t % 10000>> \o
            BigAddC(IF a = <<>> THEN <<>> ELSE Tail(a),
                    IF b = <<>> THEN <<>> ELSE Tail(b), t \div 10000)

BigAdd(a, b) == BigNorm(BigAddC(a, b, 0))

RECURSIVE BigSubC(_, _, _)
BigSubC(a, b, borrow) ==
    IF a = <<>> THEN <<>>
    ELSE LET y == IF b = <<>> THEN 0 ELSE b[1]
             t == a[1] - y - borrow
         IN <<(t + 10000) % 10000>> \o
            BigSubC(Tail(a), IF b = <<>> THEN <<>> ELSE Tail(b),
                    IF t < 0 THEN 1 ELSE 0)

\* a - b for a >= b
BigSub(a, b) == BigNorm(BigSubC(a, b, 0))

RECURSIVE BigCmpAt(_, _, _)
BigCmpAt(a, b, k) ==
    IF k = 0 THEN 0
    ELSE IF a[k] < b[k] THEN -1
    ELSE IF a[k] > b[k] THEN 1
    ELSE BigCmpAt(a, b, k - 1)

\* -1, 0 or 1 as a < b, a = b or a > b
BigCmp(a, b) ==
    IF Len(a) < Len(b) THEN -1
    ELSE IF Len(a) > Len(b) THEN 1
    ELSE BigCmpAt(a, b, Len(a))

BigLess(a, b) == BigCmp(a, b) = -1

RECURSIVE BigMul(_, _)
BigMul(a, b) ==
    IF b = <<>> \/ a = <<>> THEN <<>>
    ELSE BigAdd(BigMulSmall(a, b[1]),
                LET rest == BigMul(a, Tail(b))
                IN IF rest = <<>> THEN <<>> ELSE <<0>> \o rest)

\* floor(a / k) and a mod k for 1 <= k <= 100000: long division from the top limb
RECURSIVE BigDivSmallAt(_, _, _, _)
BigDivSmallAt(a, k, pos, rem) ==
    IF pos = 0 THEN [q |-> <<>>, r |-> rem]
    ELSE LET t == rem * 10000 + a[pos]
             lower == BigDivSmallAt(a, k, pos - 1, t % k)
         IN [q |-> lower.q \o <<t \div k>>, r |-> lower.r]

BigDivSmall(a, k) ==
    LET res == BigDivSmallAt(a, k, Len(a), 0)
    IN [q |-> BigNorm(res.q), r |-> res.r]

RECURSIVE Pow2(_)
Pow2(n) ==
    IF n >= 13 THEN BigMulSmall(Pow2(n - 13), 8192)
    ELSE IF n > 0 THEN BigMulSmall(Pow2(n - 1), 2)
    ELSE <<1>>

\* floor(a / 2^n)
RECURSIVE BigShr(_, _)
BigShr(a, n) ==
    IF n >= 13 THEN BigShr(BigDivSmall(a, 8192).q, n - 13)
    ELSE IF n > 0 THEN BigShr(BigDivSmall(a, 2).q, n - 1)
    ELSE a

IsOdd(a) == a # <<>> /\ a[1] % 2 = 1

\* a / 2^n rounded to the nearest integer, ties to even
RoundShr(a, n) ==
    LET q == BigShr(a, n)
        r == BigSub(a, BigMul(q, Pow2(n)))
        c == BigCmp(BigMulSmall(r, 2), Pow2(n))
    IN IF c = 1 \/ (c = 0 /\ IsOdd(q)) THEN BigAdd(q, <<1>>) ELSE q

\* a / k rounded to the nearest integer, ties to even, for 1 <= k <= 50000
RoundDivSmall(a, k) ==
    LET qr == BigDivSmall(a, k)
    IN IF 2 * qr.r > k \/ (2 * qr.r = k /\ IsOdd(qr.q))
       THEN BigAdd(qr.q, <<1>>) ELSE qr.q

--------------------------------------------------------------------------
(* IEEE-754 doubles in (0, 2): [man, exp] is man * 2^exp,                  *)
(* 2^52 <= man < 2^53                                                      *)

\* a mantissa rounded up to 2^53 moves to the next binade
Renorm(man, exp) ==
    IF man = Pow2(53) THEN [man |-> Pow2(52), exp |-> exp + 1]
    ELSE [man |-> man, exp |-> exp]

\* the least k >= from with num * 2^k >= den * 2^52
RECURSIVE ScaleFor(_, _, _)
ScaleFor(num, den, from) ==
    IF BigLess(BigMul(num, Pow2(from)), BigMulSmall(Pow2(52), den))
    THEN ScaleFor(num, den, from + 1) ELSE from

\* the double nearest to num / den (0 < num / den < 2): what a decimal literal
\* with num hundredths or tenths denotes, and what the decimal string of a
\* rounded value parses to
Float(num, den) ==
    LET k == ScaleFor(num, den, 52)
    IN Renorm(RoundDivSmall(BigMul(num, Pow2(k)), den), 0 - k)

\* x * y, correctly rounded
FloatMul(x, y) ==
    LET p == BigMul(x.man, y.man)
        s == IF BigLess(p, Pow2(105)) THEN 52 ELSE 53
    IN Renorm(RoundShr(p, s), x.exp + y.exp + s)

\* round(x, 2): the exact value of x rounded to hundredths (ties to even), and
\* the double nearest to that decimal
PyRound2(x) == Float(RoundShr(BigMulSmall(x.man, 100), 0 - x.exp), 100)

--------------------------------------------------------------------------
(* build_schedule: phases, volume modifier, time prefixes                  *)

\* mutant: the outdoor build is measured from the indoor peak
PhasesCfgWrongPeak(s, e, p1, p2) == <<
    [name |-> "Phase 1 - General Prep", s |-> s, e |-> p1 - 84],
    [name |-> "Phase 2 - Specific Prep", s |-> p1 - 83, e |-> p1 - 35],
    [name |-> "Phase 3 - Pre-Competition (Indoor)", s |-> p1 - 34, e |-> p1 - 7],
    [name |-> "Phase 4 - Taper & Peak 1", s |-> p1 - 6, e |-> p1],
    [name |-> "Phase 5 - Transition/Recovery", s |-> p1 + 1, e |-> p1 + 14],
    [name |-> "Phase 6 - Outdoor Build", s |-> p1 + 15, e |-> p1 - 49],
    [name |-> "Phase 7 - Pre-Competition Outdoor", s |-> p2 - 48, e |-> p2 - 14],
    [name |-> "Phase 8 - Taper & Peak 2", s |-> p2 - 13, e |-> p2],
    [name |-> "Phase 9 - Post-season Reset", s |-> p2 + 1, e |-> e] >>

\* mutant: the second taper starts a fortnight before the peak, its first day
\* shared with the phase before it
PhasesCfgOverlap(s, e, p1, p2) == <<
    [name |-> "Phase 1 - General Prep", s |-> s, e |-> p1 - 84],
    [name |-> "Phase 2 - Specific Prep", s |-> p1 - 83, e |-> p1 - 35],
    [name |-> "Phase 3 - Pre-Competition (Indoor)", s |-> p1 - 34, e |-> p1 - 7],
    [name |-> "Phase 4 - Taper & Peak 1", s |-> p1 - 6, e |-> p1],
    [name |-> "Phase 5 - Transition/Recovery", s |-> p1 + 1, e |-> p1 + 14],
    [name |-> "Phase 6 - Outdoor Build", s |-> p1 + 15, e |-> p2 - 49],
    [name |-> "Phase 7 - Pre-Competition Outdoor", s |-> p2 - 48, e |-> p2 - 14],
    [name |-> "Phase 8 - Taper & Peak 2", s |-> p2 - 14, e |-> p2],
    [name |-> "Phase 9 - Post-season Reset", s |-> p2 + 1, e |-> e] >>

\* mutant: the pre-competition phase starts 43 days before the peak instead of
\* 34, inside the phase before it
PhasesCfgTransposed(s, e, p1, p2) == <<
    [name |-> "Phase 1 - General Prep", s |-> s, e |-> p1 - 84],
    [name |-> "Phase 2 - Specific Prep", s |-> p1 - 83, e |-> p1 - 35],
    [name |-> "Phase 3 - Pre-Competition (Indoor)", s |-> p1 - 43, e |-> p1 - 7],
    [name |-> "Phase 4 - Taper & Peak 1", s |-> p1 - 6, e |-> p1],
    [name |-> "Phase 5 - Transition/Recovery", s |-> p1 + 1, e |-> p1 + 14],
    [name |-> "Phase 6 - Outdoor Build", s |-> p1 + 15, e |-> p2 - 49],
    [name |-> "Phase 7 - Pre-Competition Outdoor", s |-> p2 - 48, e |-> p2 - 14],
    [name |-> "Phase 8 - Taper & Peak 2", s |-> p2 - 13, e |-> p2],
    [name |-> "Phase 9 - Post-season Reset", s |-> p2 + 1, e |-> e] >>

\* the phases_cfg list
PhasesCfg(s, e, p1, p2) == <<
    [name |-> "Phase 1 - General Prep", s |-> s, e |-> p1 - 84],
    [name |-> "Phase 2 - Specific Prep", s |-> p1 - 83, e |-> p1 - 35],
    [name |-> "Phase 3 - Pre-Competition (Indoor)", s |-> p1 - 34, e |-> p1 - 7],
    [name |-> "Phase 4 - Taper & Peak 1", s |-> p1 - 6, e |-> p1],
    [name |-> "Phase 5 - Transition/Recovery", s |-> p1 + 1, e |-> p1 + 14],
    [name |-> "Phase 6 - Outdoor Build", s |-> p1 + 15, e |-> p2 - 49],
    [name |-> "Phase 7 - Pre-Competition Outdoor", s |-> p2 - 48, e |-> p2 - 14],
    [name |-> "Phase 8 - Taper & Peak 2", s |-> p2 - 13, e |-> p2],
    [name |-> "Phase 9 - Post-season Reset", s |-> p2 + 1, e |-> e] >>

\* phase_for: the name of the first range holding the date, "" when none does
RECURSIVE PhaseScan(_, _, _)
PhaseScan(pcfg, date, k) ==
    IF k > Len(pcfg) THEN ""
    ELSE IF pcfg[k].s <= date /\ date <= pcfg[k].e THEN pcfg[k].name
    ELSE PhaseScan(pcfg, date, k + 1)

\* mutant: the two ends of a range are compared strictly
RECURSIVE PhaseScanStrict(_, _, _)
PhaseScanStrict(pcfg, date, k) ==
    IF k > Len(pcfg) THEN ""
    ELSE IF pcfg[k].s < date /\ date < pcfg[k].e THEN pcfg[k].name
    ELSE PhaseScanStrict(pcfg, date, k + 1)

phase_for_strict(pcfg, date) == PhaseScanStrict(pcfg, date, 1)

phase_for(pcfg, date) == PhaseScan(pcfg, date, 1)

\* next((d for n, d in DEFAULT_PHASES if n == phase), "")
RECURSIVE FocusScan(_, _)
FocusScan(phase, k) ==
    IF k > Len(DEFAULT_PHASES) THEN ""
    ELSE IF DEFAULT_PHASES[k][1] = phase THEN DEFAULT_PHASES[k][2]
    ELSE FocusScan(phase, k + 1)

FocusFor(phase) == FocusScan(phase, 1)

CommuteFactor(c) ==
    IF Get(c, "bike_km_per_day", 0) >= 30 THEN Float(BigOf(9), 10) ELSE Float(BigOf(1), 1)

AgeFactor(c) ==
    IF Get(c, "age", 15) >= 16 THEN Float(BigOf(1), 1) ELSE Float(BigOf(95), 100)

\* mutant: the taper override is lost
VolModNoTaper(cf, af, phase) ==
    IF Contains("Transition", phase) \/ Contains("Post-season", phase)
    THEN Float(BigOf(4), 10) ELSE PyRound2(FloatMul(cf, af))

\* vol_mod of a row: the rounded product, then the two overrides in order
VolMod(cf, af, phase) ==
    LET base == PyRound2(FloatMul(cf, af))
        taper == IF Contains("Taper", phase) THEN Float(BigOf(5), 10) ELSE base
    IN IF Contains("Transition", phase) \/ Contains("Post-season", phase)
       THEN Float(BigOf(4), 10) ELSE taper

\* str(n) of a non-negative integer
RECURSIVE IntStr(_)
IntStr(n) ==
    LET digit == <<"0", "1", "2", "3", "4", "5", "6", "7", "8", "9">>[(n % 10) + 1]
    IN IF n < 10 THEN digit ELSE IntStr(n \div 10) \o digit

\* sep.join(parts)
RECURSIVE Join(_, _)
Join(sep, parts) ==
    IF parts = <<>> THEN ""
    ELSE IF Len(parts) = 1 THEN parts[1]
    ELSE parts[1] \o sep \o Join(sep, Tail(parts))

SlotText(s) ==
    Get(s, "start", "") \o "-" \o Get(s, "end", "") \o " @ " \o Get(s, "location", "")

_time_prefix_manual(slots) ==
    Join(" + ", [k \in 1..Len(slots) |-> SlotText(slots[k])])

\* the templates dictionary of _time_prefix_auto
Templates ==
    (5 :> ( ("Mon" :> [location |-> "Statina/Club", minutes |-> 75])
         @@ ("Tue" :> [location |-> "Track", minutes |-> 60])
         @@ ("Wed" :> [location |-> "Home (core)", minutes |-> 60])
         @@ ("Thu" :> [location |-> "Papendal/Track", minutes |-> 105])
         @@ ("Fri" :> [location |-> "Track", minutes |-> 60]) ))
 @@ (4 :> ( ("Mon" :> [location |-> "Club/Track", minutes |-> 75])
         @@ ("Wed" :> [location |-> "Home (core)", minutes |-> 45])
         @@ ("Thu" :> [location |-> "Track", minutes |-> 90])
         @@ ("Fri" :> [location |-> "Track", minutes |-> 60]) ))
 @@ (6 :> ( ("Mon" :> [location |-> "Track", minutes |-> 75])
         @@ ("Tue" :> [location |-> "Track", minutes |-> 60])
         @@ ("Wed" :> [location |-> "Home (core)", minutes |-> 60])
         @@ ("Thu" :> [location |-> "Track", minutes |-> 105])
         @@ ("Fri" :> [location |-> "Track", minutes |-> 60])
         @@ ("Sat" :> [location |-> "Track (optional)", minutes |-> 90]) ))

\* templates.get(sessions_per_week, templates[5])
TemplateFor(sessions_per_week) == Get(Templates, sessions_per_week, Templates[5])

_time_prefix_auto(day, sessions_per_week) ==
    LET table == TemplateFor(sessions_per_week)
    IN IF day \notin DOMAIN table THEN ""
       ELSE IF table[day].minutes = 0 THEN ""
       ELSE "(@ " \o table[day].location \o ", ~" \o IntStr(table[day].minutes) \o " min) -- "

\* mutant: include_time_prefix is not consulted
PrefixForAlways(c, day) ==
    LET schedule_cfg == Get(c, "schedule", <<>>)
        schedule_mode == Get(schedule_cfg, "mode", "none")
        sessions_per_week == Get(schedule_cfg, "sessions_per_week", 5)
        manual_slots == Get(schedule_cfg, "slots", <<>>)
        slots == Get(manual_slots, day, <<>>)
    IN IF schedule_mode = "manual"
       THEN IF slots # <<>> THEN _time_prefix_manual(slots) \o " -- " ELSE ""
       ELSE IF schedule_mode = "auto" THEN _time_prefix_auto(day, sessions_per_week)
       ELSE ""

\* the value of  prefix  when the cell of a day is composed
PrefixFor(c, day) ==
    LET schedule_cfg == Get(c, "schedule", <<>>)
        schedule_mode == Get(schedule_cfg, "mode", "none")
        sessions_per_week == Get(schedule_cfg, "sessions_per_week", 5)
        include_time_prefix == Get(schedule_cfg, "include_time_prefix", TRUE)
        manual_slots == Get(schedule_cfg, "slots", <<>>)
        slots == Get(manual_slots, day, <<>>)
    IN IF ~include_time_prefix THEN ""
       ELSE IF schedule_mode = "manual"
            THEN IF slots # <<>> THEN _time_prefix_manual(slots) \o " -- " ELSE ""
       ELSE IF schedule_mode = "auto" THEN _time_prefix_auto(day, sessions_per_week)
       ELSE ""

\* day_cells[day]
Cell(prefix, base_text) == IF prefix # "" THEN prefix \o base_text ELSE base_text

\* mutant: the enumeration starts at 1
RotIdxFromOne(idx) == (idx + 1) % 4

RotIdx(idx) == idx % 4

\* the dictionary appended for anchor w with enumerate index idx
Row(c, cf, af, idx, w, phase) ==
    ( ("Week of" :> FromOrdinal(w))
   @@ ("Phase" :> phase)
   @@ ("Focus" :> FocusFor(phase))
   @@ ("Volume modifier" :> VolMod(cf, af, phase)) )
   @@ [day \in DaySet |-> Cell(PrefixFor(c, day), ROTATIONS[day][RotIdx(idx) + 1])]

\* the locals of the same iteration
IterLocals(c, idx) ==
    [i |-> idx,
     rot_idx |-> RotIdx(idx),
     base_text |-> [day \in DaySet |-> ROTATIONS[day][RotIdx(idx) + 1]],
     prefix |-> [day \in DaySet |-> PrefixFor(c, day)]]

--------------------------------------------------------------------------
(* taper_protocol and calendar_to_excel                                    *)

\* the three dictionaries taper_protocol returns
ProtocolA(peak_type) ==
    [Volume |-> "-40% to -60%",
     Intensity |-> "High (short & sharp)",
     KeySessions |-> "Mon: starts/accel; Tue: flying 20-30m; Thu: race-pace touches; Fri: micro-priming",
     Strength |-> "Explosive only (bodyweight/bands)",
     RestDays |-> ">=1 full rest day before race",
     Notes |-> "A-peak (" \o peak_type \o "): keep CNS fresh; no fatigue-dense work last 72h"]

ProtocolB ==
    [Volume |-> "-20% to -30%",
     Intensity |-> "Moderate-high",
     KeySessions |-> "Short starts + 1 race-pace rep",
     Strength |-> "Light explosive set",
     RestDays |-> "Optional rest day before race",
     Notes |-> "Rehearsal race; do not over-taper"]

ProtocolC ==
    [Volume |-> "No change or -10%",
     Intensity |-> "Normal training",
     KeySessions |-> "Keep routine; short starts",
     Strength |-> "Normal",
     RestDays |-> "None required",
     Notes |-> "Training race; prioritize learning"]

\* mutant: only "C" gets the training-race protocol, anything else unknown is
\* treated as a rehearsal race
taper_protocol_strict_c(priority, peak_type) ==
    IF priority = "A" THEN ProtocolA(peak_type)
    ELSE IF priority = "C" THEN ProtocolC
    ELSE ProtocolB

taper_protocol(priority, peak_type) ==
    IF priority = "A" THEN ProtocolA(peak_type)
    ELSE IF priority = "B" THEN ProtocolB
    ELSE ProtocolC

\* the dictionary calendar_to_excel appends for calendar row r
CalRow(r) ==
    LET p == taper_protocol(r["Priority (A/B/C)"], Get(r, "Peak type", ""))
    IN ("Date" :> r["Date"])
    @@ ("Meet" :> r["Meet"])
    @@ ("Priority (A/B/C)" :> r["Priority (A/B/C)"])
    @@ ("Events" :> r["Events"])
    @@ ("Taper: Volume" :> p.Volume)
    @@ ("Taper: Intensity" :> p.Intensity)
    @@ ("Taper: Key sessions" :> p.KeySessions)
    @@ ("Taper: Strength" :> p.Strength)
    @@ ("Taper: Rest days" :> p.RestDays)
    @@ ("Notes" :> p.Notes)

--------------------------------------------------------------------------
(* Inputs                                                                  *)

MaxJitter == 1     \* season boundaries are tried up to this many days after each anchor date
MaxSlots == 2      \* manual slots per weekday
MaxCalRows == 2    \* rows of the race calendar

Date(y, m, d) == [y |-> y, m |-> m, d |-> d]

Shifted(dates) ==
    {FromOrdinal(ToOrdinal(dt) + k) : dt \in dates, k \in 0..MaxJitter}

\* 2025-09-01 and 2026-01-05 are Mondays
SeasonStarts == Shifted({Date(2025, 9, 1), Date(2026, 1, 5)})
\* before every start; a fortnight in; mid-season; the default outdoor peak and
\* the days after it
SeasonEnds ==
    Shifted({Date(2025, 8, 25), Date(2025, 9, 15), Date(2026, 3, 2),
             Date(2026, 6, 28), Date(2026, 6, 30)})
\* the default; 84 days after 2025-09-01; a week into the season; after every
\* end; not a day
IndoorPeaks ==
    {Date(2026, 2, 21), Date(2025, 11, 24), Date(2025, 9, 8), Date(2026, 8, 1),
     Date(2026, 2, 30)}
\* the default; 64 and 63 days after the default indoor peak; a week after it;
\* before it; not a day
OutdoorPeaks ==
    {Date(2026, 6, 28), Date(2026, 4, 26), Date(2026, 4, 25), Date(2026, 3, 1),
     Date(2025, 9, 10), Date(2026, 6, 31)}

DateCfg(s, e, p1, p2) ==
    [season_start |-> s, season_end |-> e,
     peaks |-> [indoor_peak_dates |-> <<p1>>, outdoor_peak_date |-> p2]]

\* the form's defaults (lines 310-325)
DefaultDates ==
    DateCfg(Date(2025, 9, 1), Date(2026, 7, 1), Date(2026, 2, 21), Date(2026, 6, 28))
\* a season of six anchors around the indoor peak
ShortDates ==
    DateCfg(Date(2026, 2, 3), Date(2026, 3, 16), Date(2026, 2, 21), Date(2026, 6, 28))

AthleteCfgs ==
    {<<>>} \cup {("age" :> a) : a \in {15, 16}}
           \cup {("bike_km_per_day" :> b) : b \in {29, 30, 32}}
           \cup {("age" :> a) @@ ("bike_km_per_day" :> b) : a \in {15, 16}, b \in {29, 30, 32}}

DefaultAthlete == ("age" :> 15) @@ ("bike_km_per_day" :> 32)

SlotChoices ==
    { [start |-> "20:00", end |-> "21:15", location |-> "Statina"],
      [start |-> "16:30", location |-> "Papendal"] }

RECURSIVE SeqsUpTo(_, _)
SeqsUpTo(S, n) ==
    IF n = 0 THEN {<<>>}
    ELSE LET shorter == SeqsUpTo(S, n - 1)
         IN shorter \cup {Append(q, x) : q \in shorter, x \in S}

SlotLists == SeqsUpTo(SlotChoices, MaxSlots)

SlotMaps ==
    {<<>>} \cup {("Mon" :> l) : l \in SlotLists}
           \cup {("Mon" :> <<>>) @@ ("Thu" :> l) @@ ("Sun" :> <<>>) : l \in SlotLists}

ScheduleCfgs ==
    {<<>>, [mode |-> "auto"], [mode |-> "manual"], [include_time_prefix |-> FALSE]}
      \cup {[mode |-> "none", include_time_prefix |-> inc, sessions_per_week |-> 5,
             slots |-> ("Mon" :> <<[start |-> "20:00", end |-> "21:15", location |-> "Statina"]>>)] :
                inc \in BOOLEAN}
      \cup {[mode |-> "manual", include_time_prefix |-> inc, sessions_per_week |-> 5,
             slots |-> sl] : inc \in BOOLEAN, sl \in SlotMaps}
      \cup {[mode |-> "auto", include_time_prefix |-> inc, sessions_per_week |-> n,
             slots |-> <<>>] : inc \in BOOLEAN, n \in 3..7}

WithSchedule(c, sch) == IF sch = <<>> THEN c ELSE c @@ ("schedule" :> sch)

\* every combination of dates, with the form's default athlete and no schedule
DateSweep ==
    {DateCfg(s, e, p1, p2) @@ DefaultAthlete :
        s \in SeasonStarts, e \in SeasonEnds, p1 \in IndoorPeaks, p2 \in OutdoorPeaks}

\* the default season back to front
InvertedDates ==
    DateCfg(Date(2026, 7, 1), Date(2025, 9, 1), Date(2026, 2, 21), Date(2026, 6, 28))

SeasonChoices == {DefaultDates, ShortDates, InvertedDates}

\* every athlete, with no schedule
AthleteSweep == {d @@ a : d \in SeasonChoices, a \in AthleteCfgs}

\* every schedule, with the form's default athlete
ScheduleSweep ==
    {WithSchedule(d @@ DefaultAthlete, sch) : d \in SeasonChoices, sch \in ScheduleCfgs}

Configs == DateSweep \cup AthleteSweep \cup ScheduleSweep

CalPriorities == {"A", "B", "C", "D"}
CalPeakTypes == {"Indoor 60/200", "Outdoor 100/200"}

CalendarRows ==
    {("Date" :> "2026-02-21") @@ ("Meet" :> "Indoor Peak Day 1") @@ ("Events" :> "60m,200m")
        @@ ("Priority (A/B/C)" :> pr) : pr \in CalPriorities}
    \cup
    {("Date" :> "2026-02-21") @@ ("Meet" :> "Indoor Peak Day 1") @@ ("Events" :> "60m,200m")
        @@ ("Priority (A/B/C)" :> pr) @@ ("Peak type" :> pt) :
            pr \in CalPriorities, pt \in CalPeakTypes}

Calendars == SeqsUpTo(CalendarRows, MaxCalRows)

--------------------------------------------------------------------------
(* The state machine                                                       *)

BuildIdle ==
    /\ cfg = <<>> /\ pc = "idle"
    /\ start = 0 /\ end = 0 /\ weeks = <<>> /\ peak1 = 0 /\ peak2 = 0
    /\ phases_cfg = <<>> /\ commute_factor = <<>> /\ age_factor = <<>>
    /\ i = 0 /\ rows = <<>> /\ iter_log = <<>>

CalIdle == df_cal = <<>> /\ cal_pc = "idle" /\ cal_i = 0 /\ cal_rows = <<>>

InitBuild ==
    /\ op = "build"
    /\ cfg \in Configs
    /\ pc = "call"
    /\ start = 0 /\ end = 0 /\ weeks = <<>> /\ peak1 = 0 /\ peak2 = 0
    /\ phases_cfg = <<>> /\ commute_factor = <<>> /\ age_factor = <<>>
    /\ i = 0 /\ rows = <<>> /\ iter_log = <<>>
    /\ CalIdle

InitCal ==
    /\ op = "calendar"
    /\ df_cal \in Calendars
    /\ cal_pc = "call" /\ cal_i = 0 /\ cal_rows = <<>>
    /\ BuildIdle

Init == InitBuild \/ InitCal

DatesOf(c) ==
    <<c.season_start, c.season_end, c.peaks.indoor_peak_dates[1], c.peaks.outdoor_peak_date>>

WellFormed(c) == \A k \in 1..4 : ValidDate(DatesOf(c)[k])

\* a strptime call raises ValueError
BuildRaise ==
    /\ pc = "call"
    /\ ~WellFormed(cfg)
    /\ pc' = "error"
    /\ UNCHANGED <<op, cfg, start, end, weeks, peak1, peak2, phases_cfg,
                   commute_factor, age_factor, i, rows, iter_log, calVars>>

\* lines 78-112 and 150: the locals are set and the loop is entered
BuildSetup ==
    /\ pc = "call"
    /\ WellFormed(cfg)
    /\ start' = ToOrdinal(cfg.season_start)
    /\ end' = ToOrdinal(cfg.season_end)
    /\ weeks' = DateRange(start', end')
    /\ peak1' = ToOrdinal(cfg.peaks.indoor_peak_dates[1])
    /\ peak2' = ToOrdinal(cfg.peaks.outdoor_peak_date)
    /\ phases_cfg' = PhasesCfg(start', end', peak1', peak2')
    /\ commute_factor' = CommuteFactor(cfg)
    /\ age_factor' = AgeFactor(cfg)
    /\ i' = 0
    /\ rows' = <<>>
    /\ iter_log' = <<>>
    /\ pc' = "loop"
    /\ UNCHANGED <<op, cfg, calVars>>

\* one iteration of the loop over enumerate(weeks)
BuildWeek ==
    /\ pc = "loop"
    /\ i < Len(weeks)
    /\ LET w == weeks[i + 1]
           phase == phase_for(phases_cfg, w)
       IN IF phase = ""
          THEN UNCHANGED <<rows, iter_log>>
          ELSE /\ rows' = Append(rows, Row(cfg, commute_factor, age_factor, i, w, phase))
               /\ iter_log' = Append(iter_log, IterLocals(cfg, i))
    /\ i' = i + 1
    /\ UNCHANGED <<op, cfg, pc, start, end, weeks, peak1, peak2, phases_cfg,
                   commute_factor, age_factor, calVars>>

\* return pd.DataFrame(rows)
BuildReturn ==
    /\ pc = "loop"
    /\ i = Len(weeks)
    /\ pc' = "done"
    /\ UNCHANGED <<op, cfg, start, end, weeks, peak1, peak2, phases_cfg,
                   commute_factor, age_factor, i, rows, iter_log, calVars>>

CalStart ==
    /\ cal_pc = "call"
    /\ cal_pc' = "loop"
    /\ cal_i' = 0
    /\ cal_rows' = <<>>
    /\ UNCHANGED <<op, df_cal, buildVars>>

\* one iteration of the loop over df_cal.iterrows()
CalNext ==
    /\ cal_pc = "loop"
    /\ cal_i < Len(df_cal)
    /\ cal_rows' = Append(cal_rows, CalRow(df_cal[cal_i + 1]))
    /\ cal_i' = cal_i + 1
    /\ UNCHANGED <<op, df_cal, cal_pc, buildVars>>

\* the frame is written out and its bytes returned
CalReturn ==
    /\ cal_pc = "loop"
    /\ cal_i = Len(df_cal)
    /\ cal_pc' = "done"
    /\ UNCHANGED <<op, df_cal, cal_i, cal_rows, buildVars>>

Next ==
    \/ BuildRaise
    \/ BuildSetup
    \/ BuildWeek
    \/ BuildReturn
    \/ CalStart
    \/ CalNext
    \/ CalReturn

Spec == Init /\ [][Next]_vars

--------------------------------------------------------------------------
(* Properties                                                              *)

\* build_schedule has set its locals
Built == op = "build" /\ pc \in {"loop", "done"}

\* build_schedule has returned its rows
Returned == op = "build" /\ pc = "done"

RowDate(k) == ToOrdinal(rows[k]["Week of"])

\* C1: every returned row's 'Week of' is an existing day, a Monday, and lies within
\* [season_start, season_end], both ends included
C1_WeekOfIsMondayInSeason ==
    Returned =>
        \A k \in 1..Len(rows) :
            /\ ValidDate(rows[k]["Week of"])
            /\ Weekday(RowDate(k)) = 0
            /\ ToOrdinal(cfg.season_start) <= RowDate(k)
            /\ RowDate(k) <= ToOrdinal(cfg.season_end)

\* a finished schedule with rows whose season neither starts nor ends on a Monday
C1_Witness ==
    /\ op = "build" /\ pc = "done"
    /\ Len(rows) >= 2
    /\ Weekday(start) # 0
    /\ Weekday(end) # 0

\* C2: in the returned rows the modifier is 0.5 in Taper rows, 0.4 in Transition and Post-season
\* rows, and round(commute_factor * age_factor, 2) in every other row, whatever
\* age and bike_km_per_day are
C2_VolumeModifier ==
    Returned =>
        LET base == PyRound2(FloatMul(CommuteFactor(cfg), AgeFactor(cfg)))
            half == Float(BigOf(5), 10)
            fourTenths == Float(BigOf(4), 10)
        IN \A k \in 1..Len(rows) :
            LET phase == rows[k]["Phase"]
                vol == rows[k]["Volume modifier"]
            IN /\ Contains("Taper", phase) => vol = half
               /\ (Contains("Transition", phase) \/ Contains("Post-season", phase))
                    => vol = fourTenths
               /\ ~(Contains("Taper", phase) \/ Contains("Transition", phase)
                        \/ Contains("Post-season", phase))
                    => vol = base

\* a finished schedule of a 16-year-old who cycles less than 30 km (base 1.0)
\* holding a taper row, a transition row and a row of neither kind
C2_Witness ==
    /\ op = "build" /\ pc = "done"
    /\ Get(cfg, "age", 15) = 16
    /\ Get(cfg, "bike_km_per_day", 0) = 29
    /\ \E k \in 1..Len(rows) : rows[k]["Phase"] = "Phase 4 - Taper & Peak 1"
    /\ \E k \in 1..Len(rows) : rows[k]["Phase"] = "Phase 5 - Transition/Recovery"
    /\ \E k \in 1..Len(rows) : rows[k]["Phase"] = "Phase 3 - Pre-Competition (Indoor)"

\* C3: in the returned rows the anchor with positional index n takes rotation index n mod 4, so the
\* rotation texts (and the cells) of anchors n and n + 4 are the same, and equal
\* (day, index mod 4) gives equal text
C3_RotationPeriodFour ==
    Returned =>
        /\ Len(iter_log) = Len(rows)
        /\ \A k \in 1..Len(rows) :
            LET n == iter_log[k].i
            IN /\ n < Len(weeks)
               /\ weeks[n + 1] = RowDate(k)
               /\ iter_log[k].rot_idx = n % 4
               /\ \A day \in DaySet :
                    /\ iter_log[k].base_text[day] = ROTATIONS[day][(n % 4) + 1]
                    /\ iter_log[k].prefix[day] = ""
                        => rows[k][day] = ROTATIONS[day][(n % 4) + 1]
        /\ \A k, l \in 1..Len(rows) :
            (iter_log[l].i = iter_log[k].i + 4 \/ iter_log[l].i % 4 = iter_log[k].i % 4)
                => \A day \in DaySet :
                    /\ iter_log[l].base_text[day] = iter_log[k].base_text[day]
                    /\ rows[l][day] = rows[k][day]

\* a finished schedule whose anchors 0 and 4 share their Monday text and whose
\* anchors 0 and 1 do not
C3_Witness ==
    /\ op = "build" /\ pc = "done"
    /\ Len(rows) >= 6
    /\ iter_log[1].i = 0 /\ iter_log[5].i = 4
    /\ rows[1]["Mon"] = rows[5]["Mon"]
    /\ rows[1]["Mon"] # rows[2]["Mon"]

PeaksInSeason ==
    /\ start <= end
    /\ start <= peak1 /\ peak1 <= end
    /\ start <= peak2 /\ peak2 <= end

AllPhasesNonEmpty == \A k \in 1..Len(phases_cfg) : phases_cfg[k].s <= phases_cfg[k].e

\* C4 as stated: with season_start <= season_end and both peaks within the
\* season, all nine phase ranges are non-empty
C4_PeaksInSeasonSuffice == (Built /\ PeaksInSeason) => AllPhasesNonEmpty

\* C4 amended: the nine phase ranges are all non-empty exactly when
\* season_start <= peak_indoor - 84d, peak_indoor + 64d <= peak_outdoor and
\* peak_outdoor + 1d <= season_end
C4_NonEmptyPhases ==
    Built =>
        /\ Len(phases_cfg) = 9
        /\ AllPhasesNonEmpty <=>
            (start <= peak1 - 84 /\ peak1 + 64 <= peak2 /\ peak2 + 1 <= end)

\* the ordered boundaries occur, with all nine phases non-empty
C4_Witness ==
    /\ Built
    /\ start <= peak1 - 84 /\ peak1 + 64 <= peak2 /\ peak2 + 1 <= end
    /\ AllPhasesNonEmpty

\* C5: the nine ranges come in the fixed order 1..9, each ends the day before
\* the next starts, the first starts at season_start and the last ends at
\* season_end, for every choice of season and peaks
C5_PhasesContiguous ==
    Built =>
        /\ Len(phases_cfg) = 9
        /\ \A k \in 1..9 : phases_cfg[k].name = DEFAULT_PHASES[k][1]
        /\ \A k \in 1..8 : phases_cfg[k].e + 1 = phases_cfg[k + 1].s
        /\ phases_cfg[1].s = ToOrdinal(cfg.season_start)
        /\ phases_cfg[9].e = ToOrdinal(cfg.season_end)

\* the phases of a season whose outdoor peak comes before its indoor peak
C5_Witness == Built /\ peak2 < peak1 /\ start <= end

\* the form's default configuration: season 2025-09-01..2026-07-01, peaks
\* 2026-02-21 and 2026-06-28, age 15, 32 km by bike
DefaultScenario ==
    /\ Returned
    /\ cfg.season_start = Date(2025, 9, 1)
    /\ cfg.season_end = Date(2026, 7, 1)
    /\ cfg.peaks.indoor_peak_dates[1] = Date(2026, 2, 21)
    /\ cfg.peaks.outdoor_peak_date = Date(2026, 6, 28)
    /\ Get(cfg, "age", 15) = 15
    /\ Get(cfg, "bike_km_per_day", 0) = 32

TaperWeekRow(k) ==
    /\ rows[k]["Week of"] = Date(2026, 2, 16)
    /\ rows[k]["Phase"] = "Phase 4 - Taper & Peak 1"
    /\ rows[k]["Volume modifier"] = Float(BigOf(5), 10)

\* C6: in the default scenario the first row is in "Phase 1 - General Prep" with
\* volume modifier 0.86, and the row of week 2026-02-16 is in
\* "Phase 4 - Taper & Peak 1" with volume modifier 0.5
C6_DefaultScenarioRows ==
    DefaultScenario =>
        /\ Len(rows) >= 1
        /\ rows[1]["Phase"] = "Phase 1 - General Prep"
        /\ rows[1]["Volume modifier"] = Float(BigOf(86), 100)
        /\ \E k \in 1..Len(rows) : TaperWeekRow(k)

\* what build_schedule returns there: the same rows, the first with 0.85
C6_DefaultScenarioAsBuilt ==
    DefaultScenario =>
        /\ Len(rows) >= 1
        /\ rows[1]["Phase"] = "Phase 1 - General Prep"
        /\ rows[1]["Volume modifier"] = Float(BigOf(85), 100)
        /\ \E k \in 1..Len(rows) : TaperWeekRow(k)

InvertedSeason ==
    /\ op = "build"
    /\ WellFormed(cfg)
    /\ ToOrdinal(cfg.season_end) < ToOrdinal(cfg.season_start)

\* C7: with well-formed dates and season_end before season_start, build_schedule
\* raises nothing, appends no row and returns the empty schedule
C7_InvertedSeasonIsEmpty ==
    InvertedSeason =>
        /\ pc \in {"call", "loop", "done"}
        /\ rows = <<>>
        /\ pc = "loop" => i = Len(weeks)

\* an inverted season whose call has returned, with peaks on either side of it
C7_Witness ==
    /\ InvertedSeason
    /\ pc = "done"
    /\ rows = <<>>
    /\ peak1 < end /\ peak2 > start

ScheduleOf(c) == Get(c, "schedule", <<>>)
ModeOf(c) == Get(ScheduleOf(c), "mode", "none")
IncludeOf(c) == Get(ScheduleOf(c), "include_time_prefix", TRUE)
SessionsOf(c) == Get(ScheduleOf(c), "sessions_per_week", 5)
SlotsOf(c, day) == Get(Get(ScheduleOf(c), "slots", <<>>), day, <<>>)

\* the prefix the claim describes for a table entry
AutoText(entry) == "(@ " \o entry.location \o ", ~" \o IntStr(entry.minutes) \o " min) -- "

\* the prefix the claim describes for a day under a table
AutoPrefix(table, day) ==
    IF day \in DOMAIN table /\ table[day].minutes # 0 THEN AutoText(table[day]) ELSE ""

\* a schedule with rows, built in auto mode with prefixes switched on
AutoRows == Returned /\ ModeOf(cfg) = "auto" /\ IncludeOf(cfg) /\ Len(rows) >= 1

\* C8: in auto mode each of the counts 3, 4, 5 and 6 is a key of the built-in
\* table and its prefixes are not those of another count's table, any other
\* count reads the 5-session table, and the prefix of a day is
\* "(@ {location}, ~{minutes} min) -- " when the table has an entry with
\* non-zero minutes for it and empty otherwise
C8_AutoTablePerCount ==
    AutoRows =>
        LET n == SessionsOf(cfg)
            table == IF n \in DOMAIN Templates THEN Templates[n] ELSE Templates[5]
        IN /\ n \in {3, 4, 5, 6} =>
                /\ n \in DOMAIN Templates
                /\ \A m \in DOMAIN Templates \ {n} :
                    iter_log[1].prefix # [day \in DaySet |-> AutoPrefix(Templates[m], day)]
           /\ n \notin {3, 4, 5, 6} => TemplateFor(n) = Templates[5]
           /\ \A k \in 1..Len(rows) : \A day \in DaySet :
                iter_log[k].prefix[day] = AutoPrefix(table, day)
           /\ n = 5 => iter_log[1].prefix["Thu"] = "(@ Papendal/Track, ~105 min) -- "

\* the part of C8 that the code meets: the counts 4, 5 and 6 have their tables
\* and every other count, 3 included, reads the 5-session table
C8_AutoTableAsBuilt ==
    AutoRows =>
        LET n == SessionsOf(cfg)
            table == IF n \in {4, 5, 6} THEN Templates[n] ELSE Templates[5]
        IN /\ n \in {4, 5, 6} =>
                \A m \in DOMAIN Templates \ {n} :
                    iter_log[1].prefix # [day \in DaySet |-> AutoPrefix(Templates[m], day)]
           /\ \A k \in 1..Len(rows) : \A day \in DaySet :
                iter_log[k].prefix[day] = AutoPrefix(table, day)
           /\ n = 5 => iter_log[1].prefix["Thu"] = "(@ Papendal/Track, ~105 min) -- "

Returned_Cal == op = "calendar" /\ cal_pc = "done"

TaperOf(r) ==
    [Volume |-> r["Taper: Volume"], Intensity |-> r["Taper: Intensity"],
     KeySessions |-> r["Taper: Key sessions"], Strength |-> r["Taper: Strength"],
     RestDays |-> r["Taper: Rest days"]]

\* C9: priority A gets the A protocol (volume "-40% to -60%"), B the B protocol,
\* every other priority the training-race protocol; peak_type shows only in the
\* Notes of the A protocol, so rows of one priority agree in everything but the
\* Notes of A
C9_TaperProtocol ==
    Returned_Cal =>
        /\ Len(cal_rows) = Len(df_cal)
        /\ \A k \in 1..Len(cal_rows) :
            LET priority == df_cal[k]["Priority (A/B/C)"]
                peak_type == Get(df_cal[k], "Peak type", "")
                out == cal_rows[k]
            IN /\ priority = "A" =>
                    /\ out["Taper: Volume"] = "-40% to -60%"
                    /\ out["Taper: Intensity"] = "High (short & sharp)"
                    /\ out["Notes"] = "A-peak (" \o peak_type
                            \o "): keep CNS fresh; no fatigue-dense work last 72h"
               /\ priority = "B" =>
                    /\ out["Taper: Volume"] = "-20% to -30%"
                    /\ out["Notes"] = "Rehearsal race; do not over-taper"
               /\ priority \notin {"A", "B"} =>
                    /\ out["Taper: Volume"] = "No change or -10%"
                    /\ out["Taper: Intensity"] = "Normal training"
                    /\ out["Notes"] = "Training race; prioritize learning"
        /\ \A k, l \in 1..Len(cal_rows) :
            df_cal[k]["Priority (A/B/C)"] = df_cal[l]["Priority (A/B/C)"] =>
                /\ TaperOf(cal_rows[k]) = TaperOf(cal_rows[l])
                /\ df_cal[k]["Priority (A/B/C)"] # "A"
                    => cal_rows[k]["Notes"] = cal_rows[l]["Notes"]

\* an exported calendar with an A race for "Indoor 60/200" and a race of a
\* priority outside A, B, C, for a different peak type
C9_Witness ==
    /\ Returned_Cal
    /\ Len(cal_rows) = 2
    /\ df_cal[1]["Priority (A/B/C)"] = "A"
    /\ cal_rows[1]["Notes"]
        = "A-peak (Indoor 60/200): keep CNS fresh; no fatigue-dense work last 72h"
    /\ df_cal[2]["Priority (A/B/C)"] = "D"
    /\ Get(df_cal[2], "Peak type", "") = "Outdoor 100/200"
    /\ cal_rows[2]["Taper: Volume"] = "No change or -10%"

\* the slots of a day as the claim formats them
SlotsJoined(slots) ==
    Join(" + ", [j \in 1..Len(slots) |->
        Get(slots[j], "start", "") \o "-" \o Get(slots[j], "end", "")
            \o " @ " \o Get(slots[j], "location", "")])

PrefixIsEmptyCase(c, day) ==
    \/ ModeOf(c) = "none"
    \/ ~IncludeOf(c)
    \/ ModeOf(c) = "manual" /\ SlotsOf(c, day) = <<>>
    \/ ModeOf(c) = "auto" /\ day \notin DOMAIN TemplateFor(SessionsOf(c))

\* the cells of row k are composed as the claim says, the manual prefix being
\* the joined slots followed by tail
CellsComposed(k, tail) ==
    \A day \in DaySet :
        LET base == ROTATIONS[day][(iter_log[k].i % 4) + 1]
            prefix == iter_log[k].prefix[day]
            cell == rows[k][day]
        IN /\ cell = base \/ (prefix # "" /\ cell = prefix \o base)
           /\ prefix = "" => cell = base
           /\ PrefixIsEmptyCase(cfg, day) => cell = base
           /\ (ModeOf(cfg) = "manual" /\ IncludeOf(cfg) /\ SlotsOf(cfg, day) # <<>>)
                => /\ prefix = SlotsJoined(SlotsOf(cfg, day)) \o tail
                   /\ cell = prefix \o base

\* C10 as stated: a cell is the rotation text, or a non-empty prefix followed
\* by it; it is the bare rotation text in mode none, with include_time_prefix
\* false, in manual mode without slots for the day and in auto mode without a
\* table entry; in manual mode with slots the prefix is the slots, each
\* "{start}-{end} @ {location}", joined by " + "
C10_CellsAsStated ==
    Returned => \A k \in 1..Len(rows) : CellsComposed(k, "")

\* C10 amended: as stated, but the manual prefix is the joined slots followed
\* by the separator " -- "
C10_CellsWithSeparator ==
    Returned => \A k \in 1..Len(rows) : CellsComposed(k, " -- ")

\* a manual schedule with two slots on Monday and none on Tuesday
C10_Witness ==
    /\ Returned
    /\ ModeOf(cfg) = "manual" /\ IncludeOf(cfg)
    /\ Len(SlotsOf(cfg, "Mon")) = 2
    /\ Len(rows) >= 1
    /\ rows[1]["Mon"] = "20:00-21:15 @ Statina + 16:30- @ Papendal -- "
            \o "Warm-up + drills; Starts/accelerations; Core"
    /\ rows[1]["Tue"] = "Drills; Flying 20-30m; Light plyo"

\* the Mondays of the season, counted day by day
SeasonMondays == {d \in start..end : Weekday(d) = 0}

\* C11: for every season and every pair of peaks, also outside the season or in
\* inverted order, each Monday anchor of [season_start, season_end] lies in at
\* least one of the nine ranges: phase_for never answers "" for an anchor, no
\* iteration skips, and the rows returned are as many as the season's Mondays
C11_EveryAnchorHasAPhase ==
    /\ Built => (Len(rows) = i /\ \A k \in 1..Len(rows) : iter_log[k].i = k - 1)
    /\ Returned =>
        /\ \A k \in 1..Len(weeks) :
            /\ phase_for(phases_cfg, weeks[k]) # ""
            /\ \E j \in 1..Len(phases_cfg) :
                phases_cfg[j].s <= weeks[k] /\ weeks[k] <= phases_cfg[j].e
        /\ Len(rows) = Len(weeks)
        /\ Len(rows) = Cardinality(SeasonMondays)

\* a returned schedule whose outdoor peak precedes its indoor peak, the indoor
\* peak lying after the season's end and some range being empty
C11_Witness ==
    /\ Returned
    /\ peak2 < peak1
    /\ peak1 > end
    /\ ~AllPhasesNonEmpty
    /\ Len(rows) >= 3

OrderedBoundaries ==
    /\ start <= peak1 - 84
    /\ peak1 + 15 <= peak2 - 49
    /\ peak2 <= end

\* the number of the phase a row names
PhaseNumber(name) == CHOOSE j \in 1..Len(DEFAULT_PHASES) : DEFAULT_PHASES[j][1] = name

RangesHolding(w) ==
    {j \in 1..Len(phases_cfg) : phases_cfg[j].s <= w /\ w <= phases_cfg[j].e}

\* C12: with ordered boundaries (season_start <= peak_indoor - 84d,
\* peak_indoor + 15d <= peak_outdoor - 49d, peak_outdoor <= season_end) the
\* phase numbers of the rows never decrease in row order, each anchor lies in
\* exactly one range, and the rows' week starts strictly increase
C12_PhasesInOrder ==
    (Returned /\ OrderedBoundaries) =>
        /\ \A k \in 1..Len(weeks) : Cardinality(RangesHolding(weeks[k])) = 1
        /\ \A k \in 1..Len(rows) :
            /\ rows[k]["Phase"] \in {DEFAULT_PHASES[j][1] : j \in 1..Len(DEFAULT_PHASES)}
            /\ RangesHolding(RowDate(k)) = {PhaseNumber(rows[k]["Phase"])}
        /\ \A k \in 1..(Len(rows) - 1) :
            /\ PhaseNumber(rows[k]["Phase"]) <= PhaseNumber(rows[k + 1]["Phase"])
            /\ RowDate(k) < RowDate(k + 1)

\* a returned schedule with ordered boundaries whose season ends on the outdoor
\* peak: the rows run from phase 1 to phase 8 and pass through phase 6
C12_Witness ==
    /\ Returned
    /\ OrderedBoundaries
    /\ peak2 = end
    /\ Len(rows) >= 8
    /\ rows[1]["Phase"] = "Phase 1 - General Prep"
    /\ rows[Len(rows)]["Phase"] = "Phase 8 - Taper & Peak 2"
    /\ \E k \in 1..Len(rows) : rows[k]["Phase"] = "Phase 6 - Outdoor Build"

====
